---- MODULE Spec2Model ----
(***************************************************************************)
(* The job scheduler of server/scheduler/scheduler.go as a state machine.  *)
(*                                                                         *)
(* Execution contexts: the dispatch loop (run/process), one lifecycle per  *)
(* spawned startJob goroutine, and the callers of the Control API.  A step *)
(* of the model runs one context from one point where another context can  *)
(* change what it goes on to read (a mutex acquisition, the worker guard,  *)
(* a blocking remote call, the unguarded read of s.pending) up to the      *)
(* next.  saveJob (the job row update followed by the build aggregator     *)
(* pass) is one step.  findWorker is split per worker because it keeps the *)
(* scheduler mutex while it calls the registry and takes each worker's     *)
(* guard.                                                                  *)
(*                                                                         *)
(* The job handle a caller passes to Next is the handle the queue, the     *)
(* registry and the lifecycle share, so a job row stands for both the      *)
(* handle and what jobStore.Update last wrote; jobStore calls succeed.     *)
(*                                                                         *)
(* Three specifications share Init: Spec (the calls of the Control API     *)
(* but StopBuild), StopSpec (an admission followed by StopBuild, whose     *)
(* goroutines are contexts of their own) and AggSpec (the persists taken   *)
(* one at a time, for the build aggregator as a function of the rows).     *)
(***************************************************************************)
EXTENDS Integers, Sequences, FiniteSets, TLC

\* ------------------------------------------------------------- bounds
NJobs == 2
NWorkers == 1
MaxCap == 1
NClients == 2
MaxLife == 2
MaxTime == 2
MaxCalls == 2
MaxTimers == 1

\* ---------------------------------------------------- program constants
ReadyCap == 1
TruncLen == 65536

Jobs == 1..NJobs
Workers == 1..NWorkers
Clients == 1..NClients
Lifes == 1..MaxLife

\* The goroutines StopBuild starts, one per child job, run Stop as the
\* callers do: they are contexts of their own behind the callers.
Stoppers == (NClients + 1)..(NClients + NJobs)
Stopper(j) == NClients + j
Ctxs == Clients \cup Stoppers

Nil == 0
NoWorker == 0
NoJob == 0

\* Lengths of the log a worker hands back: shorter than, equal to and
\* longer than the truncation window.
LogLens == {TruncLen - 1, TruncLen, TruncLen + 1}

\* What StartJob hands back: the descriptor's status ("" when the call
\* failed and no descriptor came back).
StartStatuses == {"passing", "failing", ""}

\* Worker.Max of every registered worker.
Max(w) == MaxCap

VARIABLES
    queued,     \* s.queued: the Admission Queue, a sequence of job ids
    pending,    \* s.pending: job id -> worker id of the descriptor, NoWorker = absent
    paused,     \* s.paused
    ready,      \* tokens in the s.ready channel
    mu,         \* holder of s.mu across steps: "free" or "loop"
    running,    \* Worker.Running of every worker
    job,        \* the job rows: status, start and end time
    build,      \* the build row: start and end time
    scm,        \* the last state handed to the SCM status client, "none" before
    now,        \* the clock read by lib.TimeNow
    loop,       \* the dispatch loop: position and findWorker's locals
    life,       \* the startJob goroutines: position and locals
    client,     \* the Control API callers and StopBuild's goroutines: operation, position and locals
    crashed,    \* the process died of an unrecovered panic
    faultsOn,   \* whether the collaborators (stores, SCM, transport) may fail in this run
    calls,      \* Control API calls the callers have issued so far
    timers      \* times the periodic timer of the loop has fired so far

vars == <<queued, pending, paused, ready, mu, running, job, build, scm, now,
          loop, life, client, crashed, faultsOn, calls, timers>>

store == <<job, build, scm>>
env == <<now, crashed, faultsOn, calls, timers>>

\* ------------------------------------------------------------ helpers

\* Position of the first entry of q with id, 0 when there is none.
IndexOf(q, id) ==
    IF \E i \in 1..Len(q) : q[i] = id
    THEN CHOOSE i \in 1..Len(q) : q[i] = id /\ \A k \in 1..(i - 1) : q[k] # id
    ELSE 0

InQueue(q, id) == \E i \in 1..Len(q) : q[i] = id

\* removeJob: excise the first entry with the id.
removeJob(q, id) ==
    LET i == IndexOf(q, id)
    IN IF i = 0 THEN q
       ELSE SubSeq(q, 1, i - 1) \o SubSeq(q, i + 1, Len(q))

\* A deposit into a ready channel without the single-slot limit.
nextUnbounded(r) == r + 1

\* next: non-blocking deposit into the ready channel.
next(r) == IF r < ReadyCap THEN r + 1 ELSE r

\* The faults a saveJob can meet in the aggregator pass: buildStore.Find
\* fails, buildStore.Update fails, the SCM status post fails.
AggFaults == IF faultsOn THEN {"ok", "find", "update", "scm"} ELSE {"ok"}

\* The walk of updateBuildTime over build.Jobs, from job i on.
RECURSIVE walk(_, _, _, _)
walk(i, st, en, jb) ==
    IF i > NJobs THEN [alldone |-> TRUE, start |-> st, end |-> en]
    ELSE IF jb[i].end = Nil THEN [alldone |-> FALSE, start |-> st, end |-> en]
    ELSE LET en2 == IF en = Nil \/ jb[i].end > en THEN jb[i].end ELSE en
             st2 == IF st = Nil \/ (jb[i].start # Nil /\ jb[i].start < st)
                    THEN jb[i].start ELSE st
         IN walk(i + 1, st2, en2, jb)

\* updateBuildTime on build row bd with job rows jb under fault f: the
\* build row and SCM state it leaves, whether it returned an error, whether
\* it wrote the build row (updated) and whether it handed a status to the
\* SCM client (posted).
updateBuildTime(bd, sc, jb, f) ==
    IF f = "find"
    THEN [build |-> bd, scm |-> sc, err |-> TRUE, updated |-> FALSE, posted |-> FALSE]
    ELSE IF bd.start # Nil /\ bd.end # Nil
    THEN [build |-> bd, scm |-> sc, err |-> FALSE, updated |-> FALSE, posted |-> FALSE]
    ELSE
      LET w == walk(1, Nil, Nil, jb)
          b1 == IF w.start # Nil THEN [bd EXCEPT !.start = w.start] ELSE bd
          fin == w.alldone /\ w.end # Nil
          b2 == IF fin THEN [b1 EXCEPT !.end = w.end] ELSE b1
          st == IF \A j \in Jobs : jb[j].status = "passing" THEN "success" ELSE "error"
      IN IF f = "update" /\ (w.start # Nil \/ fin)
         THEN [build |-> bd, scm |-> sc, err |-> TRUE, updated |-> FALSE, posted |-> FALSE]
         ELSE IF fin /\ f = "scm"
         THEN [build |-> b2, scm |-> sc, err |-> TRUE, updated |-> TRUE, posted |-> FALSE]
         ELSE IF fin
         THEN [build |-> b2, scm |-> st, err |-> FALSE, updated |-> TRUE, posted |-> TRUE]
         ELSE [build |-> b2, scm |-> sc, err |-> FALSE, updated |-> (w.start # Nil),
               posted |-> FALSE]

\* saveJob: write the row of job id, then run the aggregator; the result
\* carries the rows it leaves and the error it returns.
saveJob(id, row, f) ==
    LET jb == [job EXCEPT ![id] = row]
        u == updateBuildTime(build, scm, jb, f)
    IN [job |-> jb, build |-> u.build, scm |-> u.scm, err |-> u.err]

\* -------------------------------------------------------------- Init

FreeLife == [pc |-> "free", job |-> NoJob, worker |-> NoWorker, stopReq |-> FALSE]

IdleLoop == [pc |-> "select", worker |-> NoWorker, idx |-> 0, c |-> 0]

IdleClient == [op |-> "none", pc |-> "idle", id |-> NoJob, wid |-> NoWorker,
               via |-> "none", stopped |-> FALSE, serr |-> FALSE,
               ok |-> FALSE, err |-> FALSE, was |-> FALSE]

\* The rows the stores hold when the scheduler is constructed: a build
\* whose jobs were created and never admitted, or a build that ran to its
\* end under an earlier scheduler (the queue is in memory, the rows are not).
InitRows ==
    \/ /\ job = [j \in Jobs |-> [status |-> "queued", start |-> Nil, end |-> Nil]]
       /\ build = [start |-> Nil, end |-> Nil]
       /\ scm = "none"
    \/ /\ job = [j \in Jobs |-> [status |-> IF j = 1 THEN "passing" ELSE "failing",
                                   start |-> 1, end |-> 1]]
       /\ build = [start |-> 1, end |-> 1]
       /\ scm = "error"

\* New (lines 21-41): empty queue and registry, not paused, no token, the
\* loop started.  Runs with failing collaborators start from the build
\* that was never admitted.
Init ==
    /\ queued = <<>>
    /\ pending = [j \in Jobs |-> NoWorker]
    /\ paused = FALSE
    /\ ready = 0
    /\ mu = "free"
    /\ running = [w \in Workers |-> 0]
    /\ InitRows
    /\ now = 1
    /\ loop = IdleLoop
    /\ life = [l \in Lifes |-> FreeLife]
    /\ client = [c \in Ctxs |-> IdleClient]
    /\ crashed = FALSE
    /\ faultsOn \in BOOLEAN
    /\ faultsOn => build.end = Nil
    /\ calls = 0
    /\ timers = 0

\* ------------------------------------------------------------- clock

\* Time passes between two readings of lib.TimeNow.
Tick ==
    /\ ~crashed
    /\ now < MaxTime
    /\ now' = now + 1
    /\ UNCHANGED <<queued, pending, paused, ready, mu, running, store,
                   loop, life, client, crashed, faultsOn, calls, timers>>

\* ----------------------------------------------------- dispatch loop

\* run, case <-s.ready: take the token and call process.
runReady ==
    /\ ~crashed
    /\ loop.pc = "select"
    /\ ready > 0
    /\ ready' = ready - 1
    /\ loop' = [loop EXCEPT !.pc = "findWorker"]
    /\ UNCHANGED <<queued, pending, paused, mu, running, store, life, client, env>>

\* run, case <-time.After(s.interval): re-raise ready.
runTimer ==
    /\ ~crashed
    /\ loop.pc = "select"
    /\ timers < MaxTimers
    /\ timers' = timers + 1
    /\ ready' = next(ready)
    /\ UNCHANGED <<queued, pending, paused, mu, running, store, loop, life, client,
                   now, crashed, faultsOn, calls>>

\* findWorker lines 319-325: s.mu.Lock(), then s.workers.List() under the
\* mutex; on a registry error the deferred unlock runs and process
\* returns the error.
findWorkerList ==
    /\ ~crashed
    /\ loop.pc = "findWorker"
    /\ mu = "free"
    /\ \/ /\ mu' = "loop"
          /\ loop' = [loop EXCEPT !.pc = "scan", !.idx = 1, !.worker = NoWorker, !.c = 0]
       \/ /\ faultsOn
          /\ mu' = "free"
          /\ loop' = IdleLoop
    /\ UNCHANGED <<queued, pending, paused, ready, running, store, life, client, env>>

\* findWorker lines 329-338: one round of the range loop, the worker's
\* counters read under its own guard; after the last worker the deferred
\* unlock runs and process goes on, or returns when worker == nil.
findWorkerScan ==
    /\ ~crashed
    /\ loop.pc = "scan"
    /\ LET w == loop.idx
           diff == Max(w) - running[w]
           best == IF diff > loop.c THEN w ELSE loop.worker
           c == IF diff > loop.c THEN diff ELSE loop.c
       IN IF w < NWorkers
          THEN /\ loop' = [loop EXCEPT !.worker = best, !.c = c, !.idx = w + 1]
               /\ mu' = mu
          ELSE /\ loop' = IF best = NoWorker THEN IdleLoop
                          ELSE [IdleLoop EXCEPT !.pc = "enqueueJob", !.worker = best]
               /\ mu' = "free"
    /\ UNCHANGED <<queued, pending, paused, ready, running, store, life, client, env>>

\* The lowest free lifecycle slot.
FreeSlot ==
    CHOOSE l \in Lifes : life[l].pc = "free" /\ \A k \in Lifes : k < l => life[k].pc # "free"

\* enqueueJob taking the job from the tail of the queue.
enqueueJobPickLast(q) == Len(q)

\* The position enqueueJob takes the job from: the head (lines 286-287).
enqueueJobPick(q) == 1

\* process lines 197-205: enqueueJob pops under the mutex; with a job in
\* hand the lifecycle is spawned (go s.startJob), else process returns.
enqueueJob ==
    /\ ~crashed
    /\ loop.pc = "enqueueJob"
    /\ mu = "free"
    /\ \/ /\ queued = <<>>
          /\ UNCHANGED <<queued, life>>
       \/ /\ queued # <<>>
          /\ \E l \in Lifes : life[l].pc = "free"
          /\ LET i == enqueueJobPick(queued)
             IN /\ queued' = SubSeq(queued, 1, i - 1) \o SubSeq(queued, i + 1, Len(queued))
                /\ life' = [life EXCEPT ![FreeSlot] =
                              [FreeLife EXCEPT !.pc = "inc", !.job = queued[i],
                                               !.worker = loop.worker]]
    /\ loop' = IdleLoop
    /\ UNCHANGED <<pending, paused, ready, mu, running, store, client, env>>

\* ------------------------------------------------------ job lifecycle

\* startJob lines 209-211: worker.Running++ under the worker's guard.
startJobInc(l) ==
    /\ ~crashed
    /\ life[l].pc = "inc"
    /\ running' = [running EXCEPT ![life[l].worker] = @ + 1]
    /\ life' = [life EXCEPT ![l].pc = "begin"]
    /\ UNCHANGED <<queued, pending, paused, ready, mu, store, loop, client, env>>

\* startJob lines 219-248: s.removeJob(job.ID); mark running, set the start
\* time, clear the end time, persist (a save error is only logged); then
\* s.pending[job.ID] = descriptor under the mutex.
startJobBegin(l) ==
    /\ ~crashed
    /\ life[l].pc = "begin"
    /\ mu = "free"
    /\ queued' = removeJob(queued, life[l].job)
    /\ \E f \in AggFaults :
         LET r == saveJob(life[l].job,
                          [status |-> "running", start |-> now, end |-> Nil], f)
         IN /\ job' = r.job
            /\ build' = r.build
            /\ scm' = r.scm
    /\ pending' = [pending EXCEPT ![life[l].job] = life[l].worker]
    /\ life' = [life EXCEPT ![l].pc = "startJob"]
    /\ UNCHANGED <<paused, ready, mu, running, loop, client, env>>

\* startJob lines 250-259: worker.StartJob returns status st (and a log);
\* the job takes the status and an end time and is persisted.  A save
\* error leads to the truncate-and-retry branch.
startJobReturn(l) ==
    /\ ~crashed
    /\ life[l].pc = "startJob"
    /\ \E st \in StartStatuses, f \in AggFaults :
         /\ (st = "" => faultsOn)
         /\ LET r == saveJob(life[l].job,
                             [status |-> st, start |-> job[life[l].job].start,
                              end |-> now], f)
            IN /\ job' = r.job
               /\ build' = r.build
               /\ scm' = r.scm
               /\ life' = IF r.err
                          THEN [life EXCEPT ![l].pc = "retry"]
                          ELSE [life EXCEPT ![l].pc = "cleanup"]
    /\ UNCHANGED <<queued, pending, paused, ready, mu, running, loop, client, env>>

\* startJob lines 260-264 with the log the worker returned long enough:
\* job.Log is cut to its last TruncLen bytes and the job saved again; an
\* error is only logged.
startJobRetry(l) ==
    /\ ~crashed
    /\ life[l].pc = "retry"
    /\ \E n \in LogLens : n - TruncLen >= 0
    /\ \E f \in AggFaults :
         LET r == saveJob(life[l].job, job[life[l].job], f)
         IN /\ job' = r.job
            /\ build' = r.build
            /\ scm' = r.scm
    /\ life' = [life EXCEPT ![l].pc = "cleanup"]
    /\ UNCHANGED <<queued, pending, paused, ready, mu, running, loop, client, env>>

\* A lifecycle whose exit leaves worker.Running as it is.
deferredSkipped(n) == n

\* What the deferred function of startJob (lines 213-217) makes of
\* worker.Running.
deferred(n) == n - 1

\* startJob line 261 with the log shorter than TruncLen: the slice
\* expression panics; the deferred function runs while the goroutine
\* unwinds and the unrecovered panic ends the process.
startJobPanic(l) ==
    /\ ~crashed
    /\ life[l].pc = "retry"
    /\ \E n \in LogLens : n - TruncLen < 0
    /\ running' = [running EXCEPT ![life[l].worker] = deferred(@)]
    /\ life' = [life EXCEPT ![l] = FreeLife]
    /\ crashed' = TRUE
    /\ UNCHANGED <<queued, pending, paused, ready, mu, store, now, loop, client,
                   faultsOn, calls, timers>>

\* startJob lines 267-271: delete(s.pending, job.ID) under the mutex, then
\* s.next(s.ctx).
startJobCleanup(l) ==
    /\ ~crashed
    /\ life[l].pc = "cleanup"
    /\ mu = "free"
    /\ pending' = [pending EXCEPT ![life[l].job] = NoWorker]
    /\ ready' = next(ready)
    /\ life' = [life EXCEPT ![l].pc = "release"]
    /\ UNCHANGED <<queued, paused, mu, running, store, loop, client, env>>

\* startJob returns: the deferred function runs (lines 213-217).
startJobRelease(l) ==
    /\ ~crashed
    /\ life[l].pc = "release"
    /\ running' = [running EXCEPT ![life[l].worker] = deferred(@)]
    /\ life' = [life EXCEPT ![l] = FreeLife]
    /\ UNCHANGED <<queued, pending, paused, ready, mu, store, loop, client, env>>

\* -------------------------------------------------------- Control API

\* What the caller of Stop does with (ok, err): Stop called directly hands
\* it to its caller; Next (line 65) drops it and goes on to append; a
\* goroutine of StopBuild drops it and calls wg.Done().
StopDone(rec, ok, err) ==
    IF rec.op = "Stop"
    THEN [rec EXCEPT !.pc = "ret", !.ok = ok, !.err = err]
    ELSE IF rec.op = "StopBuild"
    THEN [rec EXCEPT !.pc = "done"]
    ELSE [rec EXCEPT !.pc = "append", !.wid = NoWorker, !.via = "none",
                     !.stopped = FALSE, !.serr = FALSE]

\* The row Stop writes: failing, with an end time (lines 86-87, 99-100, 115-116).
StopRow(id) == [job[id] EXCEPT !.status = "failing", !.end = now]

\* Stop line 84: s.findJob(id) scans the queue under the mutex.
findJob(rec) ==
    IF InQueue(queued, rec.id)
    THEN [rec EXCEPT !.pc = "stopQueued", !.via = "queue"]
    ELSE [rec EXCEPT !.pc = "pendingGet"]

\* A caller enters Next(job): Stop(job.ID) first, which begins with findJob.
CallNext(c, j) ==
    /\ ~crashed
    /\ client[c].pc = "idle"
    /\ calls < MaxCalls
    /\ calls' = calls + 1
    /\ mu = "free"
    /\ client' = [client EXCEPT ![c] = findJob([IdleClient EXCEPT !.op = "Next", !.id = j])]
    /\ UNCHANGED <<queued, pending, paused, ready, mu, running, store, now,
                   loop, life, crashed, faultsOn, timers>>

\* A caller enters Stop(id), which begins with findJob.
CallStop(c, j) ==
    /\ ~crashed
    /\ client[c].pc = "idle"
    /\ calls < MaxCalls
    /\ calls' = calls + 1
    /\ mu = "free"
    /\ client' = [client EXCEPT ![c] = findJob([IdleClient EXCEPT !.op = "Stop", !.id = j])]
    /\ UNCHANGED <<queued, pending, paused, ready, mu, running, store, now,
                   loop, life, crashed, faultsOn, timers>>

\* findJob of the Stop inside the Next of a later child job of RestartBuild
\* and of the Stop a goroutine of StopBuild begins with.
StopFindJob(c) ==
    /\ ~crashed
    /\ client[c].pc = "findJob"
    /\ mu = "free"
    /\ client' = [client EXCEPT ![c] = findJob(client[c])]
    /\ UNCHANGED <<queued, pending, paused, ready, mu, running, store, loop, life, env>>

\* The boolean Stop returns for a job it took from the queue, given
\* whether saveJob returned an error (lines 89-93).
StopQueuedOk(saveErr) == ~saveErr

\* Stop lines 85-93: s.removeJob(id); mark failing, set the end time,
\* persist, return.
StopQueued(c) ==
    /\ ~crashed
    /\ client[c].pc = "stopQueued"
    /\ mu = "free"
    /\ queued' = removeJob(queued, client[c].id)
    /\ \E f \in AggFaults :
         LET r == saveJob(client[c].id, StopRow(client[c].id), f)
         IN /\ job' = r.job
            /\ build' = r.build
            /\ scm' = r.scm
            /\ client' = [client EXCEPT ![c] = StopDone(client[c], StopQueuedOk(r.err), FALSE)]
    /\ UNCHANGED <<pending, paused, ready, mu, running, loop, life, env>>

\* Stop line 96: s.pending[id] is read without the mutex.
StopPendingGet(c) ==
    /\ ~crashed
    /\ client[c].pc = "pendingGet"
    /\ client' = IF pending[client[c].id] # NoWorker
                 THEN [client EXCEPT ![c].pc = "stopJob", ![c].via = "pending",
                                     ![c].wid = pending[client[c].id]]
                 ELSE [client EXCEPT ![c] = StopDone(client[c], FALSE, FALSE)]
    /\ UNCHANGED <<queued, pending, paused, ready, mu, running, store, loop, life, env>>

\* Stop lines 97-107: s.getWorker lists the registry under the mutex.  When
\* that fails the job is marked failing and persisted and (false, err)
\* returned.  Else worker.StopJob(job.pb), the remote call, tells the
\* worker to stop the run of this job it holds and returns (stopped, err).
StopStopJob(c) ==
    /\ ~crashed
    /\ client[c].pc = "stopJob"
    /\ mu = "free"
    /\ \/ /\ faultsOn
          /\ \E f \in AggFaults :
               LET r == saveJob(client[c].id, StopRow(client[c].id), f)
               IN /\ job' = r.job
                  /\ build' = r.build
                  /\ scm' = r.scm
          /\ client' = [client EXCEPT ![c] = StopDone(client[c], FALSE, TRUE)]
          /\ life' = life
       \/ /\ \E st \in BOOLEAN, e \in BOOLEAN :
               /\ (e => faultsOn /\ ~st)
               /\ client' = [client EXCEPT ![c].pc = "stopFinish",
                                           ![c].stopped = st, ![c].serr = e]
               /\ life' = [l \in Lifes |->
                             IF st /\ life[l].pc = "startJob" /\ life[l].job = client[c].id
                                   /\ life[l].worker = client[c].wid
                             THEN [life[l] EXCEPT !.stopReq = TRUE]
                             ELSE life[l]]
          /\ UNCHANGED store
    /\ UNCHANGED <<queued, pending, paused, ready, mu, running, loop, env>>

\* The error Stop returns next to StopJob's acknowledgement, given whether
\* StopJob returned one (line 121).
StopErr(serr) == FALSE

\* Stop lines 108-121: after a failed StopJob the entry is deleted under
\* the mutex; the job is marked failing with an end time and persisted (an
\* error is only logged); return (stopped, nil).
StopFinish(c) ==
    /\ ~crashed
    /\ client[c].pc = "stopFinish"
    /\ IF client[c].serr
       THEN /\ mu = "free"
            /\ pending' = [pending EXCEPT ![client[c].id] = NoWorker]
       ELSE pending' = pending
    /\ \E f \in AggFaults :
         LET r == saveJob(client[c].id, StopRow(client[c].id), f)
         IN /\ job' = r.job
            /\ build' = r.build
            /\ scm' = r.scm
    /\ client' = [client EXCEPT ![c] = StopDone(client[c], client[c].stopped,
                                                StopErr(client[c].serr))]
    /\ UNCHANGED <<queued, paused, ready, mu, running, loop, life, env>>

\* The queue Next leaves when it admits id (line 67).
admit(q, id) == Append(q, id)

\* Next lines 66-68: append to the queue under the mutex.
NextAppend(c) ==
    /\ ~crashed
    /\ client[c].pc = "append"
    /\ mu = "free"
    /\ queued' = admit(queued, client[c].id)
    /\ client' = [client EXCEPT ![c].pc = "saveNext"]
    /\ UNCHANGED <<pending, paused, ready, mu, running, store, loop, life, env>>

\* Next lines 70-80: mark queued, clear both times, persist (an error is
\* only logged), signal, return nil.  RestartBuild (lines 138-141) goes on
\* to Next of its next child job.
NextSave(c) ==
    /\ ~crashed
    /\ client[c].pc = "saveNext"
    /\ \E f \in AggFaults :
         LET r == saveJob(client[c].id,
                          [status |-> "queued", start |-> Nil, end |-> Nil], f)
         IN /\ job' = r.job
            /\ build' = r.build
            /\ scm' = r.scm
    /\ ready' = next(ready)
    /\ client' = IF client[c].op = "RestartBuild" /\ client[c].id < NJobs
                 THEN [client EXCEPT ![c].pc = "findJob", ![c].id = @ + 1]
                 ELSE [client EXCEPT ![c] = IdleClient]
    /\ UNCHANGED <<queued, pending, paused, mu, running, loop, life, env>>

\* The caller of Stop or JobLog has taken the result.
Return(c) ==
    /\ ~crashed
    /\ client[c].pc = "ret"
    /\ client' = [client EXCEPT ![c] = IdleClient]
    /\ UNCHANGED <<queued, pending, paused, ready, mu, running, store, loop, life, env>>

\* Pause lines 164-169: set the flag under the mutex.
Pause(c) ==
    /\ ~crashed
    /\ client[c].pc = "idle"
    /\ calls < MaxCalls
    /\ calls' = calls + 1
    /\ mu = "free"
    /\ paused' = TRUE
    /\ UNCHANGED <<queued, pending, ready, mu, running, store, now,
                   loop, life, client, crashed, faultsOn, timers>>

\* Resume lines 171-177: clear the flag under the mutex, then signal.
Resume(c) ==
    /\ ~crashed
    /\ client[c].pc = "idle"
    /\ calls < MaxCalls
    /\ calls' = calls + 1
    /\ mu = "free"
    /\ paused' = FALSE
    /\ ready' = next(ready)
    /\ UNCHANGED <<queued, pending, mu, running, store, now,
                   loop, life, client, crashed, faultsOn, timers>>

\* JobLog lines 179-187: look the job up in s.pending under the mutex and
\* return its log, or the error "job not running".
JobLog(c, j) ==
    /\ ~crashed
    /\ client[c].pc = "idle"
    /\ calls < MaxCalls
    /\ calls' = calls + 1
    /\ mu = "free"
    /\ client' = [client EXCEPT ![c] = [IdleClient EXCEPT !.op = "JobLog", !.pc = "ret",
                                          !.id = j, !.ok = (pending[j] # NoWorker),
                                          !.err = (pending[j] = NoWorker)]]
    /\ UNCHANGED <<queued, pending, paused, ready, mu, running, store, now,
                   loop, life, crashed, faultsOn, timers>>

\* RestartBuild lines 128-137: load the build, clear both times, persist;
\* a store error is returned, else Next is called for each child job in
\* turn (each of them counts as a call).
RestartBuild(c) ==
    /\ ~crashed
    /\ client[c].pc = "idle"
    /\ calls + NJobs <= MaxCalls
    /\ calls' = calls + NJobs
    /\ \/ /\ build' = [start |-> Nil, end |-> Nil]
          /\ client' = [client EXCEPT ![c] = [IdleClient EXCEPT !.op = "RestartBuild",
                                                !.pc = "findJob", !.id = 1]]
       \/ /\ faultsOn
          /\ UNCHANGED <<build, client>>
    /\ UNCHANGED <<queued, pending, paused, ready, mu, running, job, scm, now,
                   loop, life, crashed, faultsOn, timers>>

\* StopBuild lines 147-158: load the build (a store error is returned),
\* start one goroutine per child job that calls Stop, and wait for them.
\* A goroutine remembers in was whether its job was queued or dispatched
\* when StopBuild was called and no other call was in progress.
StopBuild(c) ==
    /\ ~crashed
    /\ client[c].pc = "idle"
    /\ \A x \in Stoppers : client[x].pc = "idle"
    /\ calls < MaxCalls
    /\ calls' = calls + 1
    /\ \/ client' = [x \in Ctxs |->
                        IF x = c THEN [IdleClient EXCEPT !.op = "StopBuild", !.pc = "wait"]
                        ELSE IF x \in Stoppers
                        THEN [IdleClient EXCEPT
                                !.op = "StopBuild", !.pc = "findJob", !.id = x - NClients,
                                !.was = /\ \A k \in Clients : client[k].pc = "idle"
                                        /\ \/ InQueue(queued, x - NClients)
                                           \/ pending[x - NClients] # NoWorker
                                           \/ \E l \in Lifes : life[l].pc # "free"
                                                  /\ life[l].job = x - NClients]
                        ELSE client[x]]
       \/ /\ faultsOn
          /\ client' = [client EXCEPT ![c] = [IdleClient EXCEPT !.op = "StopBuild",
                                                !.pc = "ret", !.err = TRUE]]
    /\ UNCHANGED <<queued, pending, paused, ready, mu, running, store, now,
                   loop, life, crashed, faultsOn, timers>>

\* StopBuild lines 160-161: wg.Wait() returns once every goroutine is
\* done; then one aggregator pass, whose error is returned.
StopBuildJoin(c) ==
    /\ ~crashed
    /\ client[c].op = "StopBuild"
    /\ client[c].pc = "wait"
    /\ \A x \in Stoppers : client[x].pc = "done"
    /\ \E f \in AggFaults :
         LET u == updateBuildTime(build, scm, job, f)
         IN /\ build' = u.build
            /\ scm' = u.scm
            /\ client' = [x \in Ctxs |->
                            IF x = c THEN [client[c] EXCEPT !.pc = "ret", !.err = u.err]
                            ELSE IF x \in Stoppers THEN IdleClient
                            ELSE client[x]]
    /\ UNCHANGED <<queued, pending, paused, ready, mu, running, job, loop, life, env>>

\* ---------------------------------------------------------------- Spec

Next ==
    \/ Tick
    \/ runReady
    \/ runTimer
    \/ findWorkerList
    \/ findWorkerScan
    \/ enqueueJob
    \/ \E l \in Lifes :
         \/ startJobInc(l)
         \/ startJobBegin(l)
         \/ startJobReturn(l)
         \/ startJobRetry(l)
         \/ startJobPanic(l)
         \/ startJobCleanup(l)
         \/ startJobRelease(l)
    \/ \E c \in Ctxs :
         \/ StopFindJob(c)
         \/ StopQueued(c)
         \/ StopPendingGet(c)
         \/ StopStopJob(c)
         \/ StopFinish(c)
    \/ \E c \in Clients :
         \/ \E j \in Jobs : CallNext(c, j) \/ CallStop(c, j) \/ JobLog(c, j)
         \/ NextAppend(c)
         \/ NextSave(c)
         \/ Return(c)
         \/ Pause(c)
         \/ Resume(c)
         \/ RestartBuild(c)

\* Runs of up to MaxCalls calls of Next, Stop, JobLog, Pause, Resume and
\* RestartBuild beside the loop and the lifecycles.
Spec == Init /\ [][Next]_vars

\* ------------------------------------------------- runs with StopBuild

\* The first call of a run admits a job: Next(job), as CallNext.
Admit(c, j) ==
    /\ calls = 0
    /\ CallNext(c, j)

\* Runs in which a job is admitted and StopBuild is called, beside the
\* loop and the lifecycles.
StopNext ==
    \/ Tick
    \/ runReady
    \/ runTimer
    \/ findWorkerList
    \/ findWorkerScan
    \/ enqueueJob
    \/ \E l \in Lifes :
         \/ startJobInc(l)
         \/ startJobBegin(l)
         \/ startJobReturn(l)
         \/ startJobRetry(l)
         \/ startJobPanic(l)
         \/ startJobCleanup(l)
         \/ startJobRelease(l)
    \/ \E c \in Ctxs :
         \/ StopFindJob(c)
         \/ StopQueued(c)
         \/ StopPendingGet(c)
         \/ StopStopJob(c)
         \/ StopFinish(c)
    \/ \E c \in Clients :
         \/ \E j \in Jobs : Admit(c, j)
         \/ NextAppend(c)
         \/ NextSave(c)
         \/ StopBuild(c)
         \/ StopBuildJoin(c)
         \/ Return(c)

StopSpec == Init /\ [][StopNext]_vars


\* ------------------------------------------------- the aggregator alone

\* The persists of the scheduler taken one at a time: each writes one job
\* row and runs the aggregator pass (saveJob); StopBuild adds a pass of
\* its own and RestartBuild clears the build's times.  The queue, the
\* registry and the contexts stay as New leaves them.
idle == <<queued, pending, paused, ready, mu, running, loop, life, client,
          crashed, faultsOn, calls, timers>>

\* Next lines 70-73: the job is persisted as queued with cleared times.
PersistQueued(j) ==
    /\ \E f \in AggFaults :
         LET r == saveJob(j, [status |-> "queued", start |-> Nil, end |-> Nil], f)
         IN /\ job' = r.job
            /\ build' = r.build
            /\ scm' = r.scm
    /\ UNCHANGED <<now, idle>>

\* startJob lines 221-227: a queued job is persisted as running.
PersistRunning(j) ==
    /\ job[j].status = "queued"
    /\ \E f \in AggFaults :
         LET r == saveJob(j, [status |-> "running", start |-> now, end |-> Nil], f)
         IN /\ job' = r.job
            /\ build' = r.build
            /\ scm' = r.scm
    /\ UNCHANGED <<now, idle>>

\* startJob lines 255-258: a running job is persisted with the status
\* StartJob returned and an end time.
PersistEnded(j) ==
    /\ job[j].status = "running"
    /\ \E st \in StartStatuses, f \in AggFaults :
         /\ (st = "" => faultsOn)
         /\ LET r == saveJob(j, [status |-> st, start |-> job[j].start, end |-> now], f)
            IN /\ job' = r.job
               /\ build' = r.build
               /\ scm' = r.scm
    /\ UNCHANGED <<now, idle>>

\* Stop lines 86-89 and 115-117: a queued or running job is persisted as
\* failing with an end time.
PersistStopped(j) ==
    /\ job[j].status \in {"queued", "running"}
    /\ \E f \in AggFaults :
         LET r == saveJob(j, StopRow(j), f)
         IN /\ job' = r.job
            /\ build' = r.build
            /\ scm' = r.scm
    /\ UNCHANGED <<now, idle>>

\* StopBuild line 161: an aggregator pass with the job rows as they are.
PassAlone ==
    /\ \E f \in AggFaults :
         LET u == updateBuildTime(build, scm, job, f)
         IN /\ build' = u.build
            /\ scm' = u.scm
    /\ UNCHANGED <<job, now, idle>>

\* RestartBuild lines 132-134: both times of the build are cleared.
ClearBuild ==
    /\ build' = [start |-> Nil, end |-> Nil]
    /\ UNCHANGED <<job, scm, now, idle>>

\* Time passes between two persists.
AggTick ==
    /\ now < MaxTime
    /\ now' = now + 1
    /\ UNCHANGED <<store, idle>>

AggNext ==
    \/ AggTick
    \/ PassAlone
    \/ ClearBuild
    \/ \E j \in Jobs :
         \/ PersistQueued(j)
         \/ PersistRunning(j)
         \/ PersistEnded(j)
         \/ PersistStopped(j)

AggSpec == Init /\ [][AggNext]_vars

\* -------------------------------------------------------------- claims

\* A lifecycle that holds capacity of worker w: it has incremented
\* worker.Running and its deferred decrement has not run yet.
Holding(w) ==
    {l \in Lifes : life[l].worker = w
                   /\ life[l].pc \in {"begin", "startJob", "retry", "cleanup", "release"}}

\* A lifecycle for job j exists or j is registered as pending.
Dispatched(j) ==
    \/ pending[j] # NoWorker
    \/ \E l \in Lifes : life[l].pc # "free" /\ life[l].job = j

\* C1: every worker's running count stays within its max, under every
\* interleaving of the dispatch loop, the lifecycles and the API calls.
C1_RunningWithinMax == \A w \in Workers : running[w] <= Max(w)

\* C2: no job is in the Admission Queue and in the Pending Registry at
\* the same time.
C2_QueuedOrPending == \A j \in Jobs : ~(InQueue(queued, j) /\ pending[j] # NoWorker)

\* C3: a step taken while the scheduler is paused starts no lifecycle (no
\* job leaves the queue through dispatch), and the step that clears the
\* flag leaves a ready token for the loop.
C3_NoDispatchWhilePaused ==
    [][/\ (paused /\ paused') =>
            \A l \in Lifes : life[l].pc = "free" => life'[l].pc = "free"
       /\ (paused /\ ~paused') => ready' > 0]_vars

\* C4: FIFO dispatch.  Every job handed to a lifecycle is the head of the
\* queue, admission puts a job behind all queued ones, and a removal
\* leaves the order of the other entries as it was; so of two jobs
\* admitted one after the other, the earlier one is dispatched first.
C4_FIFODispatch ==
    [][/\ \A l \in Lifes :
            (life[l].pc = "free" /\ life'[l].pc # "free") =>
                /\ queued # <<>>
                /\ life'[l].job = Head(queued)
                /\ queued' = Tail(queued)
       /\ Len(queued') > Len(queued) =>
            \E j \in Jobs : queued' = Append(queued, j)
       /\ Len(queued') < Len(queued) =>
            \E i \in 1..Len(queued) :
                queued' = SubSeq(queued, 1, i - 1) \o SubSeq(queued, i + 1, Len(queued))
       /\ Len(queued') = Len(queued) => queued' = queued]_vars

\* C4 witness: a job has just been handed to a lifecycle while a different
\* job, admitted behind it, waits in the queue.
C4_Witness ==
    \E l \in Lifes :
        /\ life[l].pc = "inc"
        /\ queued # <<>>
        /\ Head(queued) # life[l].job

\* C5: as long as a job has not been dispatched the queue holds at most
\* one entry for it.
C5_QueueUnique ==
    \A j \in Jobs :
        ~Dispatched(j) =>
            \A i, k \in 1..Len(queued) : (queued[i] = j /\ queued[k] = j) => i = k

\* The latest end time among the child jobs.
MaxEnd == CHOOSE t \in 0..MaxTime :
              /\ \E j \in Jobs : job[j].end = t
              /\ \A j \in Jobs : job[j].end <= t

\* C6: with collaborators that do not fail, after every job persist that
\* leaves every child job with an end time (the aggregator pass has run)
\* the build's end time is the latest child end time and the state last
\* handed to the SCM is success iff every child is passing, else error.
C6_BuildTerminal ==
    [][(~faultsOn /\ job' # job /\ \A j \in Jobs : job'[j].end # Nil) =>
          /\ build'.end = MaxEnd'
          /\ scm' = IF \A j \in Jobs : job'[j].status = "passing"
                    THEN "success" ELSE "error"]_vars

\* C7: Stop of a job it found in the queue takes it out, persists it as
\* failing with an end time and returns (true, nil), whatever the
\* aggregator pass and the SCM post of that persist came to.
C7_StopQueuedReturnsTrue ==
    [][\A c \in Clients :
          (client[c].op = "Stop" /\ client[c].pc = "stopQueued" /\ client'[c].pc = "ret") =>
              /\ job'[client[c].id].status = "failing"
              /\ job'[client[c].id].end # Nil
              /\ client'[c].ok
              /\ ~client'[c].err]_vars

\* C8: Stop of a running job returns (true, nil) when the worker
\* acknowledges; the lifecycle of a run the worker was told to stop
\* persists the job as failing with an end time when StartJob returns,
\* whatever status StartJob returned, and once it has unwound the job is
\* not in the Pending Registry.
C8_StopRunningEndsFailing ==
    [][/\ \A c \in Clients :
            (client[c].op = "Stop" /\ client[c].pc = "stopFinish" /\ client[c].stopped
             /\ client'[c].pc = "ret") => (client'[c].ok /\ ~client'[c].err)
       /\ \A l \in Lifes :
            (life[l].stopReq /\ life[l].pc = "startJob" /\ life'[l].pc # "startJob") =>
                /\ job'[life[l].job].status = "failing"
                /\ job'[life[l].job].end # Nil
       /\ \A l \in Lifes :
            (life[l].stopReq /\ life'[l].pc = "free") => pending'[life[l].job] = NoWorker]_vars

\* C9: when Stop found the job pending and StopJob failed, the entry is
\* removed, the job persisted as failing with an end time, and the error
\* returned together with the worker's acknowledgement.
C9_StopJobErrorReturned ==
    [][\A c \in Clients :
          (client[c].op = "Stop" /\ client[c].pc = "stopFinish" /\ client[c].serr
           /\ client'[c].pc = "ret") =>
              /\ pending'[client[c].id] = NoWorker
              /\ job'[client[c].id].status = "failing"
              /\ job'[client[c].id].end # Nil
              /\ client'[c].ok = client[c].stopped
              /\ client'[c].err]_vars

\* C10: a worker's running count is the number of lifecycles on it that
\* have incremented it and not yet left: every lifecycle adds one before
\* StartJob and takes one off on every way out, so with no lifecycle left
\* the count is back at its value before dispatch.
C10_RunningBalanced ==
    \A w \in Workers : running[w] = Cardinality(Holding(w))

\* C10 witness: a lifecycle has left through the failed post-run persist
\* (the panic of the retry branch) and every count is back at zero.
C10_Witness ==
    /\ crashed
    /\ \A l \in Lifes : life[l].pc = "free"
    /\ \A w \in Workers : running[w] = 0

\* A step in which some context calls next: the timer case of run, the end
\* of Next, the cleanup of a lifecycle, Resume.
Signalled ==
    \/ timers' # timers
    \/ \E c \in Clients : client[c].pc = "saveNext" /\ client'[c].pc # "saveNext"
    \/ \E l \in Lifes : life[l].pc = "cleanup" /\ life'[l].pc # "cleanup"
    \/ calls' = calls + 1 /\ client' = client /\ ~paused'

\* A step in which the loop takes the token and begins a dispatch attempt.
Attempted == loop.pc = "select" /\ loop'.pc = "findWorker"

\* C11: the ready signal is a single-slot coalescing notification.  At
\* most one token is pending; a signal is never refused and leaves one
\* token pending, whether or not one was pending before; tokens come
\* only from signals, one at most per signal, and each dispatch attempt
\* of the loop consumes one: so N signals lead to at most N attempts, and
\* to at least one since a token stays until the loop takes it.
C11_ReadyCoalesces ==
    [][/\ ready' \in 0..ReadyCap
       /\ Signalled => ready' = ReadyCap
       /\ ready' > ready => (Signalled /\ ready' = ready + 1)
       /\ Attempted => (ready > 0 /\ ready' = ready - 1)
       /\ ready' < ready => Attempted]_vars

\* C11 witness: the timer has fired and a lifecycle has signalled at its
\* cleanup, a Next is about to signal once more, and one token is pending.
C11_Witness ==
    /\ ready = ReadyCap
    /\ timers > 0
    /\ \E l \in Lifes : life[l].pc = "release"
    /\ \E c \in Clients : client[c].pc = "saveNext"

\* C13: no missed wake-up.  A job that sits in the queue is eventually
\* dispatched only if the dispatch loop is still there to make a further
\* attempt: no state has a job waiting in the queue of a scheduler whose
\* process has died.
C13_QueuedJobServed == queued # <<>> => ~crashed

\* C14: once StartJob has returned the lifecycle always completes its
\* cleanup.  A lifecycle ends only after the step that removes the job
\* from the Pending Registry and signals the loop, whatever the post-run
\* persist came to and whatever the length of the log, and the scheduler
\* is never stopped.
C14_CleanupAlwaysRuns ==
    [][/\ \A l \in Lifes :
            (life[l].pc # "free" /\ life'[l].pc = "free") => life[l].pc = "release"
       /\ \A l \in Lifes :
            (life[l].pc = "retry" /\ life'[l].pc # "retry") => life'[l].pc = "cleanup"
       /\ ~crashed']_vars

\* C15: every job with an entry in the Pending Registry has status
\* running, with its start time set and its end time unset.
C15_PendingIsRunning ==
    \A j \in Jobs :
        pending[j] # NoWorker =>
            /\ job[j].status = "running"
            /\ job[j].start # Nil
            /\ job[j].end = Nil

\* C16: Next persists the job as queued with cleared times before the
\* job is visible in the queue: the step that appends a job finds its row
\* queued with both times cleared, and the step in which Next persists
\* queued never overwrites a running row written by a lifecycle.
C16_PersistBeforeVisible ==
    [][/\ \A c \in Clients :
            (client[c].pc = "append" /\ client'[c].pc # "append") =>
                /\ job[client[c].id].status = "queued"
                /\ job[client[c].id].start = Nil
                /\ job[client[c].id].end = Nil
       /\ \A c \in Clients :
            (client[c].pc = "saveNext" /\ client'[c].pc # "saveNext") =>
                job[client[c].id].status # "running"]_vars

\* The contexts that are inside a call to another component or are
\* taking a worker's guard: the loop between workers.List and the end of
\* the range loop of findWorker.
InForeignCall == {x \in {"loop"} : loop.pc = "scan"}

\* C19: lock discipline.  No context holds the scheduler mutex while it
\* calls another component or takes a worker's guard.
C19_LockDiscipline == mu \notin InForeignCall

\* C20: every access to the queue, the registry and the paused flag is
\* made by a context that holds the scheduler mutex: a step that reads
\* or writes one of them is taken with the mutex acquired by its context,
\* never while another context holds it.
C20_GuardedAccess ==
    [][/\ (queued' # queued \/ pending' # pending \/ paused' # paused) => mu = "free"
       /\ \A c \in Clients :
            (client[c].pc = "pendingGet" /\ client'[c].pc # "pendingGet") => mu = "free"]_vars

\* The earliest start time among the child jobs that have one.
MinStart == CHOOSE t \in 1..MaxTime :
                /\ \E j \in Jobs : job[j].start = t
                /\ \A j \in Jobs : job[j].start # Nil => job[j].start >= t

\* C17: after an aggregator pass (here the pass of a job persist, with
\* collaborators that do not fail) on a build whose start and end time
\* were not both set, if some child job has a start time then the
\* build's start time is the earliest child start time, whichever
\* children have ended.
C17_BuildStartIsMin ==
    [][(/\ ~faultsOn
        /\ job' # job
        /\ build.start = Nil \/ build.end = Nil
        /\ \E j \in Jobs : job'[j].start # Nil) => build'.start = MinStart']_vars

\* C18: the aggregator is idempotent.  Once every child job has ended,
\* the build has its end time and a status was handed to the SCM client,
\* a further pass over the same rows writes no build row and hands no
\* status to the SCM client, also when no child job ever started.
C18_AggregatorIdempotent ==
    (/\ \A j \in Jobs : job[j].end # Nil
     /\ build.end # Nil
     /\ scm # "none") =>
        LET u == updateBuildTime(build, scm, job, "ok")
        IN ~u.updated /\ ~u.posted

\* C12: when StopBuild returns, every child job that was queued or
\* dispatched when it was called (no other call being in progress to
\* admit it again) is persisted as failing with an end
\* time and no lifecycle is left that has yet to persist another
\* terminal status for it; and, with collaborators that do not fail and
\* every child job among those, the aggregator pass that follows the
\* Stop calls leaves the build's end time at the latest child end time
\* and state error with the SCM client.
C12_StopBuildStopsAll ==
    [][\A c \in Clients :
          (client[c].op = "StopBuild" /\ client[c].pc = "wait" /\ client'[c].pc = "ret") =>
              /\ \A j \in Jobs :
                    client[Stopper(j)].was =>
                        /\ job'[j].status = "failing"
                        /\ job'[j].end # Nil
                        /\ ~\E l \in Lifes : /\ life[l].job = j
                                              /\ life[l].pc \in {"inc", "begin", "startJob"}
              /\ (~faultsOn /\ \A j \in Jobs : client[Stopper(j)].was) =>
                    /\ build'.end = MaxEnd'
                    /\ scm' = "error"]_vars

====
